---- MODULE Spec2Model ----
(***************************************************************************)
(* Model of the SARIF-to-source resolution core of MultiAgent4VD:          *)
(*   src/sarif_utils.py  resolve_artifact_location, extract_result_files   *)
(*   src/tools.py        FakeToolset.select_suspicious                     *)
(*                                                                         *)
(* Python strings are sequences of one-character strings, so that the      *)
(* string conversions of the code (percent-decoding, separator replacement,*)
(* os.path.join, os.path.normpath, splitlines, lower) are computed and not *)
(* assumed.  os.path is posixpath (os.name = "posix").  Python's None is   *)
(* the one-element sequence None, which no string of the model equals.     *)
(***************************************************************************)
EXTENDS Integers, Sequences, FiniteSets, TLC

VARIABLES
    \* ---- resolve_artifact_location (one call)
    artifact,        \* the artifactLocation dict: [uri, uriBaseId]
    cfg,             \* cfg["app"]: [prefer_absolute_uri, project_root, uriBaseId_map]
    fs,              \* the regular files of the file system (absolute, normalized)
    ret,             \* the value returned by resolve_artifact_location
    pc,              \* "call" before the call, "done" after it
    \* ---- extract_result_files (one call)
    locs,            \* res["locations"]
    li,              \* index of the next location of the first loop
    paths,           \* the list `paths`
    di,              \* index of the next path of the dedup loop
    seen,            \* the set `seen`
    dedup,           \* the list `dedup`
    xpc,             \* "locs", "dedup", "done"
    \* ---- FakeToolset.select_suspicious (one call)
    file_content,    \* argument file_content
    suspicious_keywords, \* selector_rules["suspicious_keywords"]
    codeql_query,    \* argument codeql_query
    arg_context_window,  \* argument context_window as passed
    context_window,  \* the local context_window (after line 44-45)
    max_snippets,    \* argument max_snippets
    lines,           \* local `lines`
    hit_lines,       \* local `hit_lines`
    ranges,          \* local `ranges`
    out,             \* the returned dict: [snippet_count, snippets]
    spc,             \* "start", "scan", "merge", "emit", "done"
    \* safe_read_text(path, encoding, max_chars)
    path_entry,      \* what the argument path names on disk: [kind, bytes]
    encoding,        \* argument encoding
    max_chars,       \* argument max_chars
    read_s,          \* local `s`
    text,            \* the returned str
    rpc,             \* "open", "read", "slice", "done"
    \* iter_results(sarif), drained by list(...)
    sarif,           \* argument sarif: [runs]
    ri,              \* position of `for run in runs`
    si,              \* position of `for r in results`
    yielded,         \* the results yielded so far
    ipc,             \* "runs", "results", "done"
    \* run_from_sarif_only
    results,         \* list(iter_results(sarif)) with what each finding resolves to
    disk,            \* path -> [kind, bytes]
    max_file_chars,  \* cfg["app"].get("max_file_chars", 120000)
    fi,              \* loop variable idx (0 before the first finding)
    fj,              \* position of `for fp in files`
    outputs,         \* local `outputs`
    mpc,             \* "findings", "files", "done"
    \* FakeToolset.retrieve_vuln_kb(rule_id_or_query)
    vuln_kb,         \* self.vuln_kb
    rule_id_or_query,\* argument rule_id_or_query
    ki,              \* position of `for item in self.vuln_kb`
    kb_hits,         \* local `hits`, as positions (1-based) in vuln_kb
    kpc              \* "scan", "done"

locVars == <<artifact, cfg, fs, ret, pc>>
extVars == <<locs, li, paths, di, seen, dedup, xpc>>
selVars == <<file_content, suspicious_keywords, codeql_query, arg_context_window,
             context_window, max_snippets, lines, hit_lines, ranges, out, spc>>
readVars == <<path_entry, encoding, max_chars, read_s, text, rpc>>
iterVars == <<sarif, ri, si, yielded, ipc>>
runVars == <<results, disk, max_file_chars, fi, fj, outputs, mpc>>
kbVars == <<vuln_kb, rule_id_or_query, ki, kb_hits, kpc>>
vars == <<locVars, extVars, selVars, readVars, iterVars, runVars, kbVars>>

-----------------------------------------------------------------------------
(* Python values *)

None == <<"None">>

\* bool(x) of an Optional[str]
Truthy(x) == x /= None /\ x /= <<>>

Max(a, b) == IF a >= b THEN a ELSE b
Min(a, b) == IF a <= b THEN a ELSE b

-----------------------------------------------------------------------------
(* str methods *)

\* s.startswith(p)
StartsWith(s, p) == Len(s) >= Len(p) /\ SubSeq(s, 1, Len(p)) = p

\* s.endswith(p)
EndsWith(s, p) == Len(s) >= Len(p) /\ SubSeq(s, Len(s) - Len(p) + 1, Len(s)) = p

\* c in s, for a single character c
HasChar(s, c) == \E i \in 1..Len(s) : s[i] = c

\* sub in s (substring test); the empty string is in every string
Contains(s, sub) ==
    \E i \in 0..(Len(s) - Len(sub)) : SubSeq(s, i + 1, i + Len(sub)) = sub

\* s.replace(a, b) for single characters a, b
ReplaceChar(s, a, b) == [i \in 1..Len(s) |-> IF s[i] = a THEN b ELSE s[i]]

\* the index of the first character of s at or after i that is in cs, else Len(s)+1
RECURSIVE FindFirst(_, _, _)
FindFirst(s, cs, i) ==
    IF i > Len(s) THEN Len(s) + 1
    ELSE IF s[i] \in cs THEN i
    ELSE FindFirst(s, cs, i + 1)

\* s.split(sep) for a single character sep: always at least one piece
RECURSIVE Split(_, _)
Split(s, sep) ==
    LET k == FindFirst(s, {sep}, 1) IN
    IF k > Len(s) THEN <<s>>
    ELSE <<SubSeq(s, 1, k - 1)>> \o Split(SubSeq(s, k + 1, Len(s)), sep)

\* sep.join(parts) for a string sep
RECURSIVE Join(_, _)
Join(parts, sep) ==
    IF parts = <<>> THEN <<>>
    ELSE IF Len(parts) = 1 THEN parts[1]
    ELSE parts[1] \o sep \o Join(Tail(parts), sep)

LowerChar(c) ==
    CASE c = "A" -> "a" [] c = "B" -> "b" [] c = "C" -> "c" [] c = "D" -> "d"
      [] c = "E" -> "e" [] c = "F" -> "f" [] c = "G" -> "g" [] c = "H" -> "h"
      [] c = "I" -> "i" [] c = "J" -> "j" [] c = "K" -> "k" [] c = "L" -> "l"
      [] c = "M" -> "m" [] c = "N" -> "n" [] c = "O" -> "o" [] c = "P" -> "p"
      [] c = "Q" -> "q" [] c = "R" -> "r" [] c = "S" -> "s" [] c = "T" -> "t"
      [] c = "U" -> "u" [] c = "V" -> "v" [] c = "W" -> "w" [] c = "X" -> "x"
      [] c = "Y" -> "y" [] c = "Z" -> "z" [] OTHER -> c

\* s.lower()
Lower(s) == [i \in 1..Len(s) |-> LowerChar(s[i])]

-----------------------------------------------------------------------------
(* urllib.parse: urlparse and unquote, as far as _file_from_file_uri uses   *)
(* them.  The URIs of the model hold printable ASCII only, so urlsplit's    *)
(* stripping of leading control characters and of tab/CR/LF does nothing.   *)

\* the printable ASCII characters, code points 32..126 (code point 96 is
\* written by name: the lexer does not take the character in a string)
Ascii ==
  <<
    " ", "!", "\"", "#", "$", "%", "&", "'", "(", ")", "*", "+",
    ",", "-", ".", "/", "0", "1", "2", "3", "4", "5", "6", "7",
    "8", "9", ":", ";", "<", "=", ">", "?", "@", "A", "B", "C",
    "D", "E", "F", "G", "H", "I", "J", "K", "L", "M", "N", "O",
    "P", "Q", "R", "S", "T", "U", "V", "W", "X", "Y", "Z", "[",
    "\\", "]", "^", "_", "<backtick>", "a", "b", "c", "d", "e", "f", "g",
    "h", "i", "j", "k", "l", "m", "n", "o", "p", "q", "r", "s",
    "t", "u", "v", "w", "x", "y", "z", "{", "|", "}", "~"
  >>

\* chr(n) of a decoded byte; bytes outside printable ASCII (which the inputs
\* of the model never encode) decode to one replacement character
Chr(n) == IF n >= 32 /\ n <= 126 THEN Ascii[n - 31] ELSE "<?>"

HexDigits ==
    {"0", "1", "2", "3", "4", "5", "6", "7", "8", "9",
     "a", "b", "c", "d", "e", "f", "A", "B", "C", "D", "E", "F"}

HexVal(c) ==
    CASE c = "0" -> 0 [] c = "1" -> 1 [] c = "2" -> 2 [] c = "3" -> 3
      [] c = "4" -> 4 [] c = "5" -> 5 [] c = "6" -> 6 [] c = "7" -> 7
      [] c = "8" -> 8 [] c = "9" -> 9
      [] c \in {"a", "A"} -> 10 [] c \in {"b", "B"} -> 11
      [] c \in {"c", "C"} -> 12 [] c \in {"d", "D"} -> 13
      [] c \in {"e", "E"} -> 14 [] c \in {"f", "F"} -> 15

\* unquote(s): every %XX with two hex digits becomes the character of that
\* byte; a % not followed by two hex digits stays as it is
RECURSIVE unquote(_)
unquote(s) ==
    IF s = <<>> THEN <<>>
    ELSE IF s[1] = "%" /\ Len(s) >= 3 /\ s[2] \in HexDigits /\ s[3] \in HexDigits
         THEN <<Chr(16 * HexVal(s[2]) + HexVal(s[3]))>> \o unquote(SubSeq(s, 4, Len(s)))
    ELSE <<s[1]>> \o unquote(Tail(s))

FileColon == <<"f", "i", "l", "e", ":">>
FileSlashSlash == <<"f", "i", "l", "e", ":", "/", "/">>

\* urlparse(uri).scheme, told apart only as "file" or not: the scheme is the
\* lower-cased text before the first colon
urlparse_scheme(uri) ==
    IF Len(uri) >= 5 /\ Lower(SubSeq(uri, 1, 5)) = FileColon THEN "file" ELSE "other"

\* the netloc of a file: URI: the text between a leading // and the next / ? #
urlparse_netloc(uri) ==
    LET rest == SubSeq(uri, 6, Len(uri)) IN
    IF StartsWith(rest, <<"/", "/">>)
    THEN SubSeq(rest, 3, FindFirst(rest, {"/", "?", "#"}, 3) - 1)
    ELSE <<>>

\* urlsplit raises ValueError("Invalid IPv6 URL") on a netloc with an
\* unmatched bracket
urlparse_raises(uri) ==
    LET netloc == urlparse_netloc(uri) IN
    HasChar(netloc, "[") /= HasChar(netloc, "]")

\* urlparse(uri).path of a file: URI: what follows the netloc, up to the
\* first # (fragment) or ? (query); "file" takes no ;params
urlparse_path(uri) ==
    LET rest == SubSeq(uri, 6, Len(uri))
        url  == IF StartsWith(rest, <<"/", "/">>)
                THEN SubSeq(rest, FindFirst(rest, {"/", "?", "#"}, 3), Len(rest))
                ELSE rest
    IN  SubSeq(url, 1, FindFirst(url, {"?", "#"}, 1) - 1)

-----------------------------------------------------------------------------
(* posixpath *)

\* os.path.join(a, b)
os_path_join(a, b) ==
    IF StartsWith(b, <<"/">>) THEN b
    ELSE IF a = <<>> \/ EndsWith(a, <<"/">>) THEN a \o b
    ELSE a \o <<"/">> \o b

\* the loop of normpath over the components: drops "" and ".", and lets ".."
\* remove the component before it
RECURSIVE NormComps(_, _, _)
NormComps(comps, new_comps, initial_slashes) ==
    IF comps = <<>> THEN new_comps
    ELSE
      LET comp == comps[1]
          DotDot == <<".", ".">>
          nxt ==
            IF comp = <<>> \/ comp = <<".">> THEN new_comps
            ELSE IF comp /= DotDot
                    \/ (initial_slashes = 0 /\ new_comps = <<>>)
                    \/ (new_comps /= <<>> /\ new_comps[Len(new_comps)] = DotDot)
                 THEN Append(new_comps, comp)
            ELSE IF new_comps /= <<>>
                 THEN SubSeq(new_comps, 1, Len(new_comps) - 1)
            ELSE new_comps
      IN NormComps(Tail(comps), nxt, initial_slashes)

\* os.path.normpath(path)
os_path_normpath(path) ==
    IF path = <<>> THEN <<".">>
    ELSE
      LET initial_slashes ==
            IF ~StartsWith(path, <<"/">>) THEN 0
            ELSE IF StartsWith(path, <<"/", "/">>) /\ ~StartsWith(path, <<"/", "/", "/">>)
                 THEN 2
            ELSE 1
          comps == NormComps(Split(path, "/"), <<>>, initial_slashes)
          p == [i \in 1..initial_slashes |-> "/"] \o Join(comps, <<"/">>)
      IN IF p = <<>> THEN <<".">> ELSE p

-----------------------------------------------------------------------------
(* The file system, as os.path.isfile sees it.  fs holds the regular files *)
(* by absolute normalized path; the directories are their ancestors, the   *)
(* root and the working directory.  There are no symbolic links.           *)

\* the names of an absolute normalized path, root first
Names(f) == SelectSeq(Split(f, "/"), LAMBDA c : c /= <<>>)

\* os.getcwd(), as names
CwdNames == << <<"r">> >>

IsDir(d, fsx) ==
    \/ d = <<>>
    \/ d = CwdNames
    \/ \E f \in fsx : Len(Names(f)) > Len(d) /\ SubSeq(Names(f), 1, Len(d)) = d

\* path lookup from directory cur along comps: TRUE iff it ends at a regular
\* file ("" and "." stay, ".." goes up, a name that is not the last must be a
\* directory)
RECURSIVE Walk(_, _, _)
Walk(cur, comps, fsx) ==
    IF comps = <<>> THEN FALSE
    ELSE
      LET c == comps[1]
          rest == Tail(comps)
      IN  IF c = <<>> \/ c = <<".">> THEN Walk(cur, rest, fsx)
          ELSE IF c = <<".", ".">>
               THEN Walk(IF cur = <<>> THEN cur ELSE SubSeq(cur, 1, Len(cur) - 1), rest, fsx)
          ELSE IF rest = <<>> THEN \E f \in fsx : Names(f) = Append(cur, c)
          ELSE IsDir(Append(cur, c), fsx) /\ Walk(Append(cur, c), rest, fsx)

\* os.path.isfile(p)
os_path_isfile(p, fsx) ==
    /\ p /= <<>>
    /\ Walk(IF StartsWith(p, <<"/">>) THEN <<>> ELSE CwdNames, Split(p, "/"), fsx)

-----------------------------------------------------------------------------
(* src/sarif_utils.py: the Artifact Locator *)

\* cfg.get("app", {}).get("prefer_absolute_uri", True)
PreferAbsolute(c) == c.prefer_absolute_uri \in {"absent", "true"}

\* app.get("project_root", "") or ""
ProjectRoot(c) == IF Truthy(c.project_root) THEN c.project_root ELSE <<>>

\* uri_base_id and uri_base_id in base_map
BaseMapped(uri_base_id, c) ==
    uri_base_id /= "" /\ \E e \in c.uriBaseId_map : e.id = uri_base_id

\* base_map[uri_base_id]
BaseDirOf(uri_base_id, c) == (CHOOSE e \in c.uriBaseId_map : e.id = uri_base_id).dir

\* _file_from_file_uri(uri): None when urlparse raises or the scheme is not
\* file, else the percent-decoded path (the os.name == "nt" branch is not
\* taken)
_file_from_file_uri(uri) ==
    IF urlparse_scheme(uri) /= "file" THEN None
    ELSE IF urlparse_raises(uri) THEN None
    ELSE unquote(urlparse_path(uri))

\* _resolve_with_base that never looks the base token up
_resolve_NoBaseMap(rel_uri, uri_base_id, c) ==
    os_path_normpath(os_path_join(ProjectRoot(c), ReplaceChar(rel_uri, "\\", "/")))

\* _resolve_with_base(rel_uri, uri_base_id, cfg)
_resolve_with_base(rel_uri, uri_base_id, c) ==
    LET project_root == ProjectRoot(c)
        base_dir == IF BaseMapped(uri_base_id, c) THEN BaseDirOf(uri_base_id, c)
                    ELSE project_root
        rel_path == ReplaceChar(rel_uri, "\\", "/")
    IN  os_path_normpath(os_path_join(base_dir, rel_path))

\* the candidate of tier 3: os.path.normpath(os.path.join(project_root, uri))
Fallback(uri, c) == os_path_normpath(os_path_join(ProjectRoot(c), uri))

\* resolve_artifact_location with the base-token tier tried before the
\* file:// tier
resolve_Tier2First(art, c, fsx) ==
    LET uri == art.uri IN
    IF ~Truthy(uri) THEN None
    ELSE
      LET isFileUri == StartsWith(uri, FileSlashSlash)
          p == _file_from_file_uri(uri)
          abs_path == _resolve_with_base(uri, art.uriBaseId, c)
          fallback == Fallback(uri, c)
      IN  IF os_path_isfile(abs_path, fsx) THEN abs_path
          ELSE IF isFileUri /\ PreferAbsolute(c) /\ Truthy(p) /\ os_path_isfile(p, fsx)
          THEN p
          ELSE IF os_path_isfile(fallback, fsx) THEN fallback
          ELSE IF isFileUri THEN p
          ELSE abs_path

\* resolve_artifact_location whose last file:// tier asks for the flag too
resolve_Tier4NeedsFlag(art, c, fsx) ==
    LET uri == art.uri IN
    IF ~Truthy(uri) THEN None
    ELSE
      LET isFileUri == StartsWith(uri, FileSlashSlash)
          p == _file_from_file_uri(uri)
          abs_path == _resolve_with_base(uri, art.uriBaseId, c)
          fallback == Fallback(uri, c)
      IN  IF isFileUri /\ PreferAbsolute(c) /\ Truthy(p) /\ os_path_isfile(p, fsx) THEN p
          ELSE IF os_path_isfile(abs_path, fsx) THEN abs_path
          ELSE IF os_path_isfile(fallback, fsx) THEN fallback
          ELSE IF isFileUri /\ PreferAbsolute(c) THEN p
          ELSE abs_path

\* resolve_artifact_location(artifact, cfg)
resolve_artifact_location(art, c, fsx) ==
    LET uri == art.uri IN
    IF ~Truthy(uri) THEN None
    ELSE
      LET isFileUri == StartsWith(uri, FileSlashSlash)
          p == _file_from_file_uri(uri)
          abs_path == _resolve_with_base(uri, art.uriBaseId, c)
          fallback == Fallback(uri, c)
      IN  IF isFileUri /\ PreferAbsolute(c) /\ Truthy(p) /\ os_path_isfile(p, fsx)
          THEN p
          ELSE IF os_path_isfile(abs_path, fsx) THEN abs_path
          ELSE IF os_path_isfile(fallback, fsx) THEN fallback
          ELSE IF isFileUri THEN p
          ELSE abs_path

-----------------------------------------------------------------------------
(* Inputs of the Artifact Locator *)

U_abs == <<"f", "i", "l", "e", ":", "/", "/", "/", "r", "/", "a", ".", "c">>
U_pct == <<"f", "i", "l", "e", ":", "/", "/", "/", "r", "/", "a", "%", "2", "0", "b", ".", "c">>
U_host == <<"f", "i", "l", "e", ":", "/", "/", "h", "o", "s", "t", "/", "r", "/", "a", ".", "c">>
U_frag == <<"f", "i", "l", "e", ":", "/", "/", "/", "r", "/", "a", ".", "c", "#", "L", "1">>
U_dots == <<"f", "i", "l", "e", ":", "/", "/", "/", "r", "/", ".", ".", "/", "r", "/", "a", ".", "c">>
U_pctslash == <<"f", "i", "l", "e", ":", "/", "/", "/", "r", "%", "2", "F", "a", ".", "c">>
U_bad == <<"f", "i", "l", "e", ":", "/", "/", "[", "/", "r", "/", "a", ".", "c">>
U_nopath == <<"f", "i", "l", "e", ":", "/", "/", "h", "o", "s", "t">>
U_rel == <<"a", ".", "c">>
U_sub == <<"s", "r", "c", "/", "a", ".", "c">>
U_back == <<"s", "r", "c", "\\", "a", ".", "c">>
U_up == <<".", ".", "/", "r", "/", "a", ".", "c">>
U_dot == <<".", "/", "s", "r", "c", "/", ".", ".", "/", "a", ".", "c">>
U_root == <<"/", "r", "/", "a", ".", "c">>
F_ra == <<"/", "r", "/", "a", ".", "c">>
F_ba == <<"/", "b", "/", "a", ".", "c">>
F_rsrc == <<"/", "r", "/", "s", "r", "c", "/", "a", ".", "c">>
F_bsrc == <<"/", "b", "/", "s", "r", "c", "/", "a", ".", "c">>
F_rsp == <<"/", "r", "/", "a", " ", "b", ".", "c">>
F_rback == <<"/", "r", "/", "s", "r", "c", "\\", "a", ".", "c">>
F_rfile == <<"/", "r", "/", "f", "i", "l", "e", ":", "/", "r", "/", "a", ".", "c">>
D_r == <<"/", "r">>
D_b == <<"/", "b">>

FileUris == {U_abs, U_pct, U_host, U_frag, U_dots, U_pctslash, U_bad, U_nopath}
RelUris == {U_rel, U_sub, U_back, U_up, U_dot, U_root}

\* artifact.get("uri"): a URI, the empty string, or None when absent
Uris == FileUris \cup RelUris \cup {<<>>, None}

\* artifact.get("uriBaseId"): "" stands for an absent token
BaseIds == {"", "%SRCROOT%", "OTHER"}
Artifacts == [uri : Uris, uriBaseId : BaseIds]

FilePool == {F_ra, F_ba, F_rsrc, F_bsrc, F_rsp, F_rback, F_rfile}

\* at most this many regular files exist
MaxFiles == 2
FileSystems == {x \in SUBSET FilePool : Cardinality(x) <= MaxFiles}

Configs ==
    [prefer_absolute_uri : {"absent", "true", "false"},
     project_root : {None, <<>>, D_r},
     uriBaseId_map : {{}, {[id |-> "%SRCROOT%", dir |-> D_b]}}]

\* the work of one iteration of the first loop of extract_result_files on
\* `paths`: a location with no artifactLocation is skipped, a falsy
\* resolution is not appended
loc_step(ps, loc, c, fsx) ==
    IF loc.kind /= "art" THEN ps
    ELSE LET p == resolve_artifact_location(loc.art, c, fsx)
         IN  IF Truthy(p) THEN Append(ps, p) ELSE ps

\* dedup loops that put a new path first, and that append every path
dedup_step_Prepend(sn, dd, p) == IF p \notin sn THEN <<p>> \o dd ELSE dd
dedup_step_NoSeen(sn, dd, p) == Append(dd, p)

\* the work of one iteration of the dedup loop on `dedup`
dedup_step(sn, dd, p) == IF p \notin sn THEN Append(dd, p) ELSE dd

-----------------------------------------------------------------------------
(* Inputs of extract_result_files *)

NoArt == [uri |-> None, uriBaseId |-> ""]

\* a location: None ("null"), without physicalLocation ("no_phy"), without
\* or with an empty artifactLocation ("no_art"), or with one ("art")
LocOf(a) == [kind |-> "art", art |-> a]
LocPool ==
    {[kind |-> "null", art |-> NoArt],
     [kind |-> "no_phy", art |-> NoArt],
     [kind |-> "no_art", art |-> NoArt],
     LocOf([uri |-> None, uriBaseId |-> "%SRCROOT%"]),
     LocOf([uri |-> U_rel, uriBaseId |-> ""]),
     LocOf([uri |-> U_dot, uriBaseId |-> ""]),
     LocOf([uri |-> U_sub, uriBaseId |-> ""]),
     LocOf([uri |-> U_bad, uriBaseId |-> ""]),
     LocOf([uri |-> U_nopath, uriBaseId |-> ""])}

\* at most this many locations in a result
MaxLocs == 3
RECURSIVE SeqsUpTo(_, _)
SeqsUpTo(S, n) ==
    IF n = 0 THEN {<<>>}
    ELSE LET shorter == SeqsUpTo(S, n - 1)
         IN  shorter \cup {Append(q, x) : q \in {r \in shorter : Len(r) = n - 1}, x \in S}

ExtractSetups ==
    {[cfg |-> [prefer_absolute_uri |-> "true", project_root |-> D_r, uriBaseId_map |-> {}],
      fs |-> {F_ra}],
     [cfg |-> [prefer_absolute_uri |-> "absent", project_root |-> None, uriBaseId_map |-> {}],
      fs |-> {}]}

-----------------------------------------------------------------------------
(* src/tools.py: the Suspicious Region Selector *)

\* str.splitlines(): lines end at "\n", "\r" or "\r\n"; no empty last line
RECURSIVE splitlines(_)
splitlines(s) ==
    IF s = <<>> THEN <<>>
    ELSE
      LET k == FindFirst(s, {"\n", "\r"}, 1) IN
      IF k > Len(s) THEN <<s>>
      ELSE
        LET skip == IF s[k] = "\r" /\ k < Len(s) /\ s[k + 1] = "\n" THEN 2 ELSE 1
        IN  <<SubSeq(s, 1, k - 1)>> \o splitlines(SubSeq(s, k + skip, Len(s)))

\* seq[:m], Python's slice: a negative m counts from the end
SliceTo(seq, m) ==
    IF m >= 0 THEN SubSeq(seq, 1, Min(m, Len(seq)))
    ELSE SubSeq(seq, 1, Max(0, Len(seq) + m))

\* the 0-based indices idx.., ascending, at which flags is TRUE (the
\* enumerate loops that append idx to hit_lines)
RECURSIVE HitIndices(_, _)
HitIndices(flags, idx) ==
    IF idx >= Len(flags) THEN <<>>
    ELSE (IF flags[idx + 1] THEN <<idx>> ELSE <<>>) \o HitIndices(flags, idx + 1)

\* the list of line 59
fallbacks ==
  <<<<"r", "e", "g", "e", "x">>,
    <<"p", "a", "t", "t", "e", "r", "n">>,
    <<"c", "o", "m", "p", "i", "l", "e">>,
    <<"f", "i", "l", "e">>,
    <<"p", "a", "t", "h">>,
    <<"i", "n", "p", "u", "t">>,
    <<"s", "a", "n", "i", "t", "i", "z", "e">>>>


\* the window default applied to negative values only
coerce_window_NegativeOnly(w) == IF w < 0 THEN 10 ELSE w

\* context_window after lines 44-45
coerce_window(w) == IF w <= 0 THEN 10 ELSE w

\* a keyword test that does not lower-case the keyword
primary_hit_KeywordAsWritten(line, kws) ==
    \E j \in 1..Len(kws) : Contains(Lower(line), kws[j])

\* any(kw.lower() in low for kw in suspicious_keywords)
primary_hit(line, kws) ==
    \E j \in 1..Len(kws) : Contains(Lower(line), Lower(kws[j]))

\* any(k in line.lower() for k in fallbacks if k in cq_low)
fallback_hit(line, query) ==
    LET cq_low == Lower(IF Truthy(query) THEN query ELSE <<>>)
    IN  \E j \in 1..Len(fallbacks) :
            Contains(cq_low, fallbacks[j]) /\ Contains(Lower(line), fallbacks[j])

\* a scan whose fallback does not look at the query text
scan_hits_AnyFallback(ls, kws, query) ==
    LET primary == HitIndices([i \in 1..Len(ls) |-> primary_hit(ls[i], kws)], 0)
    IN  IF primary /= <<>> THEN primary
        ELSE HitIndices([i \in 1..Len(ls) |->
                            \E j \in 1..Len(fallbacks) :
                                Contains(Lower(ls[i]), fallbacks[j])], 0)

\* hit_lines after lines 50-62
scan_hits(ls, kws, query) ==
    LET primary == HitIndices([i \in 1..Len(ls) |-> primary_hit(ls[i], kws)], 0)
    IN  IF primary /= <<>> THEN primary
        ELSE HitIndices([i \in 1..Len(ls) |-> fallback_hit(ls[i], query)], 0)

\* a merge loop that merges overlapping windows only, not adjacent ones
merge_step_OverlapOnly(rs, h, w, n) ==
    LET s == Max(0, h - w)
        e == Min(n - 1, h + w)
    IN  IF rs /= <<>> /\ s <= rs[Len(rs)][2]
        THEN [rs EXCEPT ![Len(rs)] = <<rs[Len(rs)][1], Max(rs[Len(rs)][2], e)>>]
        ELSE Append(rs, <<s, e>>)

\* one iteration of the merge loop (lines 67-72); a range is <<s, e>>
merge_step(rs, h, w, n) ==
    LET s == Max(0, h - w)
        e == Min(n - 1, h + w)
    IN  IF rs /= <<>> /\ s <= rs[Len(rs)][2] + 1
        THEN [rs EXCEPT ![Len(rs)] = <<rs[Len(rs)][1], Max(rs[Len(rs)][2], e)>>]
        ELSE Append(rs, <<s, e>>)

\* ranges after the merge loop (lines 65-72)
RECURSIVE merge_ranges(_, _, _, _)
merge_ranges(hits, rs, w, n) ==
    IF hits = <<>> THEN rs
    ELSE merge_ranges(Tail(hits), merge_step(rs, hits[1], w, n), w, n)

\* the ranges the snippet loop runs over: ranges[:max_snippets]
kept_ranges(rs, m) == SliceTo(rs, m)

\* a snippet whose text leaves out the last line of the range
make_snippet_ShortText(ls, r) ==
    [start_line |-> r[1] + 1,
     end_line |-> r[2] + 1,
     text |-> Join(SubSeq(ls, r[1] + 1, r[2]), <<"\n">>)]

\* the dict of line 77 for one range
make_snippet(ls, r) ==
    [start_line |-> r[1] + 1,
     end_line |-> r[2] + 1,
     text |-> Join(SubSeq(ls, r[1] + 1, r[2] + 1), <<"\n">>)]

\* the dict returned (lines 74-82), without the constant tool and file_path
make_out(ls, rs, m) ==
    LET kept == kept_ranges(rs, m)
        snippets == [i \in 1..Len(kept) |-> make_snippet(ls, kept[i])]
    IN  [snippet_count |-> Len(snippets), snippets |-> snippets]

\* select_suspicious(file_path, file_content, codeql_query, context_window,
\* max_snippets), start to end
select_suspicious(content, kws, query, w, m) ==
    LET ls == splitlines(content)
        hits == scan_hits(ls, kws, query)
        rs == merge_ranges(hits, <<>>, coerce_window(w), Len(ls))
    IN  make_out(ls, rs, m)

-----------------------------------------------------------------------------
(* Inputs of the Suspicious Region Selector *)

Ln_ok == <<"o", "k">>
Ln_eval == <<"E", "v", "a", "l">>
Ln_path == <<"a", " ", "p", "a", "t", "h">>
Ln_def == <<"d", "e", "f", " ", "f", "(", "x", ")", ":">>
Ln_y == <<" ", " ", " ", " ", "y", " ", "=", " ", "e", "v", "a", "l", "(", "x", ")">>
Ln_return == <<" ", " ", " ", " ", "r", "e", "t", "u", "r", "n", " ", "y">>
Kw_eval == <<"e", "v", "a", "l">>
Kw_EVAL == <<"E", "V", "A", "L">>
Kw_Path == <<"P", "a", "t", "h">>
Q_path == <<"f", "i", "n", "d", " ", "P", "A", "T", "H">>
Q_regex == <<"r", "e", "g", "e", "x">>

\* the file of the end-to-end scenario: three lines, no final newline
EvalFile == Join(<<Ln_def, Ln_y, Ln_return>>, <<"\n">>)

\* nine lines, keyword on lines 5 and 7
NineFile ==
    Join(<<Ln_ok, Ln_ok, Ln_ok, Ln_ok, Ln_eval, Ln_ok, Ln_eval, Ln_ok, Ln_ok>>, <<"\n">>)

\* seventeen lines, keyword on lines 1, 5, 9, 13 and 17
SpreadFile ==
    Join([i \in 1..17 |-> IF i % 4 = 1 THEN Ln_eval ELSE Ln_ok], <<"\n">>)

\* mixed line ends, an empty line, a final newline
MixedFile ==
    Ln_eval \o <<"\r", "\n">> \o Ln_ok \o <<"\r">> \o <<"\n">> \o Ln_path \o <<"\n">>

\* no configured keyword, fallback keywords only
PathFile == Join(<<Ln_ok, Ln_path, Ln_ok, Ln_ok, Ln_path>>, <<"\n">>)

\* a fallback keyword in upper case
UpperFile == Join(<<Ln_ok, <<"P", "A", "T", "H", "=", "X">>, Ln_ok>>, <<"\n">>)

\* generated files hold at most this many lines
MaxLines == 3
LineKinds == {Ln_ok, Ln_eval}
GeneratedFiles == {Join(ls, <<"\n">>) : ls \in SeqsUpTo(LineKinds, MaxLines)}
Files == GeneratedFiles \cup {EvalFile, NineFile, SpreadFile, MixedFile, PathFile, UpperFile}

KeywordLists == {<<>>, <<Kw_eval>>, <<Kw_Path, Kw_EVAL>>}
Queries == {None, Q_path, Q_regex}
Windows == {-2, -1, 0, 1, 2, 10}
SnippetCaps == {-1, 0, 1, 3}

-----------------------------------------------------------------------------
(* src/sarif_utils.py: safe_read_text.  A path names nothing, a directory, *)
(* a file the process may not read, or a regular file holding bytes.  The   *)
(* bytes of the model are ASCII characters and one byte, BadByte, that no   *)
(* ASCII or UTF-8 text holds.                                               *)

BadByte == "<0xFF>"

\* max_chars=120000
DefaultMaxChars == 120000

\* open(path, "r", encoding=encoding, errors="ignore") raises: OSError for a
\* missing path, a directory or a file without read permission, LookupError
\* for an unknown encoding
open_raises(entry, enc) == entry.kind /= "file" \/ enc \notin {"utf-8", "ascii"}

\* the newline translation of text mode: "\r\n" and "\r" are read as "\n"
RECURSIVE universal_newlines(_)
universal_newlines(t) ==
    IF t = <<>> THEN <<>>
    ELSE IF t[1] = "\r"
         THEN IF Len(t) > 1 /\ t[2] = "\n"
              THEN <<"\n">> \o universal_newlines(SubSeq(t, 3, Len(t)))
              ELSE <<"\n">> \o universal_newlines(Tail(t))
         ELSE <<t[1]>> \o universal_newlines(Tail(t))

\* f.read(): with errors="ignore" the bytes that do not decode are left out
read_all(entry) ==
    universal_newlines(SelectSeq(entry.bytes, LAMBDA b : b /= BadByte))

\* a cut that keeps the whole text
truncate_KeepAll(t, n) == t

\* if len(s) > max_chars: s = s[:max_chars]
truncate(t, n) == IF Len(t) > n THEN SliceTo(t, n) ELSE t

\* safe_read_text(path, encoding, max_chars)
safe_read_text(entry, enc, n) ==
    IF open_raises(entry, enc) THEN <<>>
    ELSE truncate(read_all(entry), n)

\* generated files hold at most this many bytes
MaxBytes == 3

DiskEntries ==
    {[kind |-> k, bytes |-> <<>>] : k \in {"missing", "directory", "denied"}}
        \cup {[kind |-> "file", bytes |-> b] :
                 b \in SeqsUpTo({"a", "\r", "\n", BadByte}, MaxBytes)}


-----------------------------------------------------------------------------
(* src/sarif_utils.py: iter_results.  A collection of the report is absent, *)
(* null or a list: [kind, items].                                           *)

\* d.get(key, []) or []
list_or_empty(field) == IF field.kind = "list" THEN field.items ELSE <<>>

\* a reading of the report that keeps its first run only
runs_of_FirstRunOnly(sf) == SliceTo(list_or_empty(sf.runs), 1)

\* runs = sarif.get("runs", []) or []
runs_of(sf) == list_or_empty(sf.runs)

\* a run holds at most this many results, a report at most this many runs
MaxResults == 2
MaxRuns == 2

Collections(S, n) ==
    {[kind |-> k, items |-> <<>>] : k \in {"absent", "null"}}
        \cup {[kind |-> "list", items |-> q] : q \in SeqsUpTo(S, n)}

\* the reports: runs that hold results "r1", "r2"
Sarifs ==
    {[runs |-> c] :
        c \in Collections({[results |-> d] : d \in Collections({"r1", "r2"}, MaxResults)},
                          MaxRuns)}

-----------------------------------------------------------------------------
(* src/main.py: run_from_sarif_only.  A finding is given by its rule id and *)
(* by the list extract_result_files returns for it; run_single_finding, the *)
(* debate with the remote model, returns one of Verdicts.  An entry of      *)
(* `outputs` is written with all four keys: the key "error" or "verdict"    *)
(* the dict does not hold is "absent", the key "file" it does not hold None. *)

\* {"index": idx, "ruleId": rule_id, "error": "no-file"}
no_file_entry(i, rule_id) ==
    [index |-> i, ruleId |-> rule_id, file |-> None,
     error |-> "no-file", verdict |-> "absent"]

\* the entry of a file that is analysed whatever was read
file_entry_AlwaysVerdict(i, rule_id, fp, txt, v) ==
    [index |-> i, ruleId |-> rule_id, file |-> fp, error |-> "absent", verdict |-> v]

\* lines 139-149: the entry of file fp whose text is txt
file_entry(i, rule_id, fp, txt, v) ==
    IF ~Truthy(txt)
    THEN [index |-> i, ruleId |-> rule_id, file |-> fp,
          error |-> "unreadable", verdict |-> "absent"]
    ELSE [index |-> i, ruleId |-> rule_id, file |-> fp, error |-> "absent", verdict |-> v]

Verdicts == {"vulnerable", "not-vulnerable"}
\* a finding: its rule id and the paths extract_result_files returns for it
Findings == [ruleId : {"", "py/redos"}, files : {<<>>, <<F_ra>>, <<F_ra, F_rsrc>>}]

\* a report holds at most this many findings
MaxFindings == 2

\* what a path of a finding names: nothing, an empty file, a file of text, a
\* file none of whose bytes decodes
RunEntries ==
    {[kind |-> "missing", bytes |-> <<>>],
     [kind |-> "file", bytes |-> <<>>],
     [kind |-> "file", bytes |-> <<"a", "\n">>],
     [kind |-> "file", bytes |-> <<BadByte>>]}

-----------------------------------------------------------------------------
(* src/tools.py: retrieve_vuln_kb.  A record of the knowledge base holds    *)
(* its id (None when the key is absent) and its four lists of strings (the  *)
(* empty list when the key is absent).                                      *)

\* the characters of the class [a-z0-9\-\._/]
TokenChars ==
    {"a", "b", "c", "d", "e", "f", "g", "h", "i", "j", "k", "l", "m",
     "n", "o", "p", "q", "r", "s", "t", "u", "v", "w", "x", "y", "z",
     "0", "1", "2", "3", "4", "5", "6", "7", "8", "9", "-", ".", "_", "/"}

\* the length of the longest run of token characters that starts at t[i]
RECURSIVE RunLen(_, _)
RunLen(t, i) ==
    IF i > Len(t) \/ t[i] \notin TokenChars THEN 0 ELSE 1 + RunLen(t, i + 1)

\* re.findall(r"[a-z0-9\-\._/]+", t): the maximal runs of token characters,
\* as a set
RECURSIVE findall_tokens(_, _)
findall_tokens(t, i) ==
    IF i > Len(t) THEN {}
    ELSE IF RunLen(t, i) = 0 THEN findall_tokens(t, i + 1)
    ELSE {SubSeq(t, i, i + RunLen(t, i) - 1)} \cup findall_tokens(t, i + RunLen(t, i))

\* q = (rule_id_or_query or "").lower()
lowered_query(query) == IF Truthy(query) THEN Lower(query) ELSE <<>>

\* item.get("id", "")
id_of(item) == IF item.id = None THEN <<>> ELSE item.id

\* the string `text` of lines 27-33
kb_text(item) ==
    Lower(Join(<<Join(item.cwe, <<" ">>), Join(item.patterns, <<" ">>),
                 Join(item.detection_hints, <<" ">>), Join(item.fixes, <<" ">>),
                 id_of(item)>>, <<" ">>))

\* lines 24 and 34: the record is appended to hits
kb_match(item, q) ==
    \/ Contains(q, Lower(id_of(item)))
    \/ \E tok \in findall_tokens(q, 1) : Contains(kb_text(item), tok)

\* one iteration of `for item in self.vuln_kb` on the record at position k
kb_step(hs, kb, k, q) == IF kb_match(kb[k], q) THEN Append(hs, k) ELSE hs

\* the records of the knowledge bases: one with every key but fixes, one
\* without id, one with a two-letter id
KbRecords ==
    {[id |-> <<"R", "e", "D", "o", "S">>, cwe |-> <<<<"C", "W", "E", "-", "1", "3", "3", "3">>>>, patterns |-> <<<<"r", "e", ".", "c", "o", "m", "p", "i", "l", "e">>>>,
      detection_hints |-> <<<<"n", "e", "s", "t", "e", "d", " ", "(", "a", "+", ")", "+">>>>, fixes |-> <<>>],
     [id |-> None, cwe |-> <<<<"C", "W", "E", "-", "7", "9">>>>, patterns |-> <<<<"i", "n", "n", "e", "r", "H", "T", "M", "L">>>>,
      detection_hints |-> <<>>, fixes |-> <<>>],
     [id |-> <<"P", "T">>, cwe |-> <<<<"C", "W", "E", "-", "2", "2">>>>, patterns |-> <<<<".", ".", "/">>>>,
      detection_hints |-> <<>>, fixes |-> <<<<"n", "o", "r", "m", "a", "l", "i", "z", "e", " ", "p", "a", "t", "h">>>>]}

\* the knowledge base holds at most this many records
MaxKb == 2

\* None, "", "py/ReDoS", "CWE-22 traversal", "use HTML!", "zzz"
KbQueries ==
    {None, <<>>,
     <<"p", "y", "/", "R", "e", "D", "o", "S">>,
     <<"C", "W", "E", "-", "2", "2", " ", "t", "r", "a", "v", "e", "r", "s", "a", "l">>,
     <<"u", "s", "e", " ", "H", "T", "M", "L", "!">>,
     <<"z", "z", "z">>}

-----------------------------------------------------------------------------
(* State machines.  Each function is run once on inputs drawn from the sets *)
(* above; the variables of the functions a specification does not run stay  *)
(* at their idle values.                                                    *)

LocIdle ==
    /\ artifact = NoArt
    /\ ret = None
    /\ pc = "idle"

ExtIdle ==
    /\ locs = <<>>
    /\ li = 1
    /\ paths = <<>>
    /\ di = 1
    /\ seen = {}
    /\ dedup = <<>>
    /\ xpc = "idle"

SelIdle ==
    /\ file_content = <<>>
    /\ suspicious_keywords = <<>>
    /\ codeql_query = None
    /\ arg_context_window = 10
    /\ context_window = 10
    /\ max_snippets = 3
    /\ lines = <<>>
    /\ hit_lines = <<>>
    /\ ranges = <<>>
    /\ out = [snippet_count |-> 0, snippets |-> <<>>]
    /\ spc = "idle"

ReadIdle ==
    /\ path_entry = [kind |-> "missing", bytes |-> <<>>]
    /\ encoding = "utf-8"
    /\ max_chars = DefaultMaxChars
    /\ read_s = <<>>
    /\ text = <<>>
    /\ rpc = "idle"

IterIdle ==
    /\ sarif = [runs |-> [kind |-> "absent", items |-> <<>>]]
    /\ ri = 0
    /\ si = 0
    /\ yielded = <<>>
    /\ ipc = "idle"

RunIdle ==
    /\ results = <<>>
    /\ disk = [p \in {} |-> p]
    /\ max_file_chars = DefaultMaxChars
    /\ fi = 0
    /\ fj = 0
    /\ outputs = <<>>
    /\ mpc = "idle"

KbIdle ==
    /\ vuln_kb = <<>>
    /\ rule_id_or_query = None
    /\ ki = 0
    /\ kb_hits = <<>>
    /\ kpc = "idle"

\* the locator's configuration and disk, for the functions that take neither
NoCfg ==
    /\ cfg = [prefer_absolute_uri |-> "absent", project_root |-> None, uriBaseId_map |-> {}]
    /\ fs = {}

\* ---- resolve_artifact_location

Init ==
    /\ artifact \in Artifacts
    /\ cfg \in Configs
    /\ fs \in FileSystems
    /\ ret = None
    /\ pc = "call"
    /\ ExtIdle
    /\ SelIdle
    /\ ReadIdle /\ IterIdle /\ RunIdle /\ KbIdle

\* the call resolve_artifact_location(artifact, cfg)
Resolve ==
    /\ pc = "call"
    /\ ret' = resolve_artifact_location(artifact, cfg, fs)
    /\ pc' = "done"
    /\ UNCHANGED <<artifact, cfg, fs, extVars, selVars,
                   readVars, iterVars, runVars, kbVars>>

Next == Resolve

Spec == Init /\ [][Next]_vars

\* ---- extract_result_files

InitExtract ==
    /\ \E su \in ExtractSetups : cfg = su.cfg /\ fs = su.fs
    /\ locs \in SeqsUpTo(LocPool, MaxLocs)
    /\ li = 1
    /\ paths = <<>>
    /\ di = 1
    /\ seen = {}
    /\ dedup = <<>>
    /\ xpc = "run"
    /\ LocIdle
    /\ SelIdle
    /\ ReadIdle /\ IterIdle /\ RunIdle /\ KbIdle

\* one iteration of `for loc in locs` (lines 96-103)
LocStep ==
    /\ xpc = "run"
    /\ li <= Len(locs)
    /\ paths' = loc_step(paths, locs[li], cfg, fs)
    /\ li' = li + 1
    /\ UNCHANGED <<locs, di, seen, dedup, xpc, locVars, selVars,
                   readVars, iterVars, runVars, kbVars>>

\* one iteration of `for p in paths` (lines 106-108)
DedupStep ==
    /\ xpc = "run"
    /\ li > Len(locs)
    /\ di <= Len(paths)
    /\ dedup' = dedup_step(seen, dedup, paths[di])
    /\ seen' = seen \cup {paths[di]}
    /\ di' = di + 1
    /\ UNCHANGED <<locs, li, paths, xpc, locVars, selVars,
                   readVars, iterVars, runVars, kbVars>>

\* return dedup (line 109)
ExtractReturn ==
    /\ xpc = "run"
    /\ li > Len(locs)
    /\ di > Len(paths)
    /\ xpc' = "done"
    /\ UNCHANGED <<locs, li, paths, di, seen, dedup, locVars, selVars,
                   readVars, iterVars, runVars, kbVars>>

NextExtract == LocStep \/ DedupStep \/ ExtractReturn

SpecExtract == InitExtract /\ [][NextExtract]_vars

\* ---- select_suspicious

InitSelect ==
    /\ file_content \in Files
    /\ suspicious_keywords \in KeywordLists
    /\ codeql_query \in Queries
    /\ arg_context_window \in Windows
    /\ context_window = arg_context_window
    /\ max_snippets \in SnippetCaps
    /\ lines = <<>>
    /\ hit_lines = <<>>
    /\ ranges = <<>>
    /\ out = [snippet_count |-> 0, snippets |-> <<>>]
    /\ spc = "scan"
    /\ LocIdle
    /\ cfg = [prefer_absolute_uri |-> "absent", project_root |-> None, uriBaseId_map |-> {}]
    /\ fs = {}
    /\ ExtIdle
    /\ ReadIdle /\ IterIdle /\ RunIdle /\ KbIdle

\* lines 43-62: the window default, the split into lines, the two scans
Scan ==
    /\ spc = "scan"
    /\ context_window' = coerce_window(context_window)
    /\ lines' = splitlines(file_content)
    /\ hit_lines' = scan_hits(splitlines(file_content), suspicious_keywords, codeql_query)
    /\ spc' = "merge"
    /\ UNCHANGED <<file_content, suspicious_keywords, codeql_query, arg_context_window,
                   max_snippets, ranges, out, locVars, extVars,
                   readVars, iterVars, runVars, kbVars>>

\* lines 64-72: the merge loop
Merge ==
    /\ spc = "merge"
    /\ ranges' = merge_ranges(hit_lines, <<>>, context_window, Len(lines))
    /\ spc' = "emit"
    /\ UNCHANGED <<file_content, suspicious_keywords, codeql_query, arg_context_window,
                   context_window, max_snippets, lines, hit_lines, out, locVars, extVars,
                   readVars, iterVars, runVars, kbVars>>

\* lines 74-82: the snippets of the first max_snippets ranges, and the return
Emit ==
    /\ spc = "emit"
    /\ out' = make_out(lines, ranges, max_snippets)
    /\ spc' = "done"
    /\ UNCHANGED <<file_content, suspicious_keywords, codeql_query, arg_context_window,
                   context_window, max_snippets, lines, hit_lines, ranges, locVars, extVars,
                   readVars, iterVars, runVars, kbVars>>

NextSelect == Scan \/ Merge \/ Emit

SpecSelect == InitSelect /\ [][NextSelect]_vars

\* ---- safe_read_text

InitRead ==
    /\ path_entry \in DiskEntries
    /\ encoding \in {"utf-8", "ascii", "bogus"}
    /\ max_chars \in {-1, 0, 1, 2, DefaultMaxChars}
    /\ read_s = <<>>
    /\ text = <<>>
    /\ rpc = "open"
    /\ LocIdle /\ NoCfg /\ ExtIdle /\ SelIdle
    /\ IterIdle /\ RunIdle /\ KbIdle

\* line 113: open(...); an exception goes to line 118-119, return ""
ReadOpen ==
    /\ rpc = "open"
    /\ IF open_raises(path_entry, encoding)
       THEN text' = <<>> /\ rpc' = "done"
       ELSE text' = text /\ rpc' = "read"
    /\ UNCHANGED <<path_entry, encoding, max_chars, read_s,
                   locVars, extVars, selVars, iterVars, runVars, kbVars>>

\* line 114: s = f.read()
ReadAll ==
    /\ rpc = "read"
    /\ read_s' = read_all(path_entry)
    /\ rpc' = "slice"
    /\ UNCHANGED <<path_entry, encoding, max_chars, text,
                   locVars, extVars, selVars, iterVars, runVars, kbVars>>

\* lines 115-117: the cut to max_chars and the return
ReadReturn ==
    /\ rpc = "slice"
    /\ text' = truncate(read_s, max_chars)
    /\ rpc' = "done"
    /\ UNCHANGED <<path_entry, encoding, max_chars, read_s,
                   locVars, extVars, selVars, iterVars, runVars, kbVars>>

NextRead == ReadOpen \/ ReadAll \/ ReadReturn

SpecRead == InitRead /\ [][NextRead]_vars

\* ---- iter_results, drained by list(iter_results(sarif))

InitIter ==
    /\ sarif \in Sarifs
    /\ ri = 0
    /\ si = 0
    /\ yielded = <<>>
    /\ ipc = "runs"
    /\ LocIdle /\ NoCfg /\ ExtIdle /\ SelIdle
    /\ ReadIdle /\ RunIdle /\ KbIdle

\* lines 15-16: the next run of `for run in runs`; its results are
\* run.get("results", []) or []
IterNextRun ==
    /\ ipc = "runs"
    /\ ri < Len(runs_of(sarif))
    /\ ri' = ri + 1
    /\ si' = 0
    /\ ipc' = "results"
    /\ UNCHANGED <<sarif, yielded,
                   locVars, extVars, selVars, readVars, runVars, kbVars>>

\* lines 17-18: yield r
IterYield ==
    /\ ipc = "results"
    /\ si < Len(list_or_empty(runs_of(sarif)[ri].results))
    /\ yielded' = Append(yielded, list_or_empty(runs_of(sarif)[ri].results)[si + 1])
    /\ si' = si + 1
    /\ UNCHANGED <<sarif, ri, ipc,
                   locVars, extVars, selVars, readVars, runVars, kbVars>>

\* line 17: the results of the run are exhausted
IterEndRun ==
    /\ ipc = "results"
    /\ si = Len(list_or_empty(runs_of(sarif)[ri].results))
    /\ ipc' = "runs"
    /\ UNCHANGED <<sarif, ri, si, yielded,
                   locVars, extVars, selVars, readVars, runVars, kbVars>>

\* line 15: the runs are exhausted, the generator stops
IterStop ==
    /\ ipc = "runs"
    /\ ri = Len(runs_of(sarif))
    /\ ipc' = "done"
    /\ UNCHANGED <<sarif, ri, si, yielded,
                   locVars, extVars, selVars, readVars, runVars, kbVars>>

NextIter == IterNextRun \/ IterYield \/ IterEndRun \/ IterStop

SpecIter == InitIter /\ [][NextIter]_vars

\* ---- run_from_sarif_only

InitRun ==
    /\ results \in SeqsUpTo(Findings, MaxFindings)
    /\ disk \in [{F_ra, F_rsrc} -> RunEntries]
    /\ max_file_chars \in {0, DefaultMaxChars}
    /\ fi = 0
    /\ fj = 0
    /\ outputs = <<>>
    /\ mpc = "findings"
    /\ LocIdle /\ NoCfg /\ ExtIdle /\ SelIdle
    /\ ReadIdle /\ IterIdle /\ KbIdle

\* lines 122-128: the next finding; without files its "no-file" entry
RunNextFinding ==
    /\ mpc = "findings"
    /\ fi < Len(results)
    /\ fi' = fi + 1
    /\ fj' = 0
    /\ IF results[fi + 1].files = <<>>
       THEN /\ outputs' = Append(outputs, no_file_entry(fi + 1, results[fi + 1].ruleId))
            /\ mpc' = "findings"
       ELSE /\ outputs' = outputs
            /\ mpc' = "files"
    /\ UNCHANGED <<results, disk, max_file_chars,
                   locVars, extVars, selVars, readVars, iterVars, kbVars>>

\* lines 133-149: one iteration of `for fp in files`
RunFile ==
    /\ mpc = "files"
    /\ \E v \in Verdicts :
         LET fp == results[fi].files[fj + 1]
             txt == safe_read_text(disk[fp], "utf-8", max_file_chars)
         IN  outputs' = Append(outputs, file_entry(fi, results[fi].ruleId, fp, txt, v))
    /\ fj' = fj + 1
    /\ mpc' = IF fj + 1 = Len(results[fi].files) THEN "findings" ELSE "files"
    /\ UNCHANGED <<results, disk, max_file_chars, fi,
                   locVars, extVars, selVars, readVars, iterVars, kbVars>>

\* line 150: return outputs
RunReturn ==
    /\ mpc = "findings"
    /\ fi = Len(results)
    /\ mpc' = "done"
    /\ UNCHANGED <<results, disk, max_file_chars, fi, fj, outputs,
                   locVars, extVars, selVars, readVars, iterVars, kbVars>>

NextRun == RunNextFinding \/ RunFile \/ RunReturn

SpecRun == InitRun /\ [][NextRun]_vars

\* ---- retrieve_vuln_kb

InitKb ==
    /\ vuln_kb \in SeqsUpTo(KbRecords, MaxKb)
    /\ rule_id_or_query \in KbQueries
    /\ ki = 0
    /\ kb_hits = <<>>
    /\ kpc = "scan"
    /\ LocIdle /\ NoCfg /\ ExtIdle /\ SelIdle
    /\ ReadIdle /\ IterIdle /\ RunIdle

\* lines 23-35: one iteration of `for item in self.vuln_kb`
KbStep ==
    /\ kpc = "scan"
    /\ ki < Len(vuln_kb)
    /\ kb_hits' = kb_step(kb_hits, vuln_kb, ki + 1, lowered_query(rule_id_or_query))
    /\ ki' = ki + 1
    /\ UNCHANGED <<vuln_kb, rule_id_or_query, kpc,
                   locVars, extVars, selVars, readVars, iterVars, runVars>>

\* lines 36-38: return out
KbReturn ==
    /\ kpc = "scan"
    /\ ki = Len(vuln_kb)
    /\ kpc' = "done"
    /\ UNCHANGED <<vuln_kb, rule_id_or_query, ki, kb_hits,
                   locVars, extVars, selVars, readVars, iterVars, runVars>>

NextKb == KbStep \/ KbReturn

SpecKb == InitKb /\ [][NextKb]_vars





-----------------------------------------------------------------------------
(* Properties of resolve_artifact_location (specification Spec) *)

\* the percent-decoded path of the file:// URI of the call
DecodedPath == unquote(urlparse_path(artifact.uri))

IsFileUri == Truthy(artifact.uri) /\ StartsWith(artifact.uri, FileSlashSlash)

\* C1: for a file:// URI, with prefer_absolute_uri true (or left at its
\* default) and the decoded path an existing regular file, the call returns
\* exactly the decoded path, whatever the base token, the base map, the
\* project root and the other files are.
C1_FileUriReturnsDecodedPath ==
    ( /\ pc = "done"
      /\ IsFileUri
      /\ cfg.prefer_absolute_uri \in {"absent", "true"}
      /\ ~urlparse_raises(artifact.uri)
      /\ os_path_isfile(DecodedPath, fs) )
    => ret = DecodedPath

\* the decoded path is returned although the project-root join of the URI
\* exists as well
C1_Witness ==
    /\ pc = "done"
    /\ artifact.uri = U_abs
    /\ cfg.prefer_absolute_uri = "true"
    /\ cfg.project_root = D_r
    /\ fs = {F_ra, F_rfile}
    /\ ret = F_ra

\* the candidates of the base-token tier and of the project-root tier
MappedBaseDir == (CHOOSE e \in cfg.uriBaseId_map : e.id = artifact.uriBaseId).dir
BaseTokenMapped == \E e \in cfg.uriBaseId_map : e.id = artifact.uriBaseId
MappedJoin ==
    os_path_normpath(os_path_join(MappedBaseDir, ReplaceChar(artifact.uri, "\\", "/")))
ProjectRootJoin ==
    os_path_normpath(
        os_path_join(IF Truthy(cfg.project_root) THEN cfg.project_root ELSE <<>>,
                     artifact.uri))

C3_NoneOnlyWithoutUri ==
    pc = "done" => (ret = None <=> ~Truthy(artifact.uri))

\* os.path.isabs(path)
os_path_isabs(path) == StartsWith(path, <<"/">>)

\* C4: every value returned that is not None is an absolute path.
C4_ResultIsAbsolute ==
    (pc = "done" /\ ret /= None) => os_path_isabs(ret)

-----------------------------------------------------------------------------
(* The tiers of resolve_artifact_location (specification Spec) *)

\* the file:// URI of the state decodes: urlparse accepts it
Decodes == IsFileUri /\ ~urlparse_raises(artifact.uri)

\* the candidate of the base-token tier: the mapped directory when the token
\* is a key of the map, else the project root
BaseJoin ==
    os_path_normpath(
        os_path_join(IF artifact.uriBaseId /= "" /\ BaseTokenMapped THEN MappedBaseDir
                     ELSE IF Truthy(cfg.project_root) THEN cfg.project_root ELSE <<>>,
                     ReplaceChar(artifact.uri, "\\", "/")))

\* tier 1 applies: a file:// URI, the flag set or left at its default, and the
\* decoded path an existing regular file
Tier1Found ==
    /\ Decodes
    /\ cfg.prefer_absolute_uri \in {"absent", "true"}
    /\ Truthy(DecodedPath)
    /\ os_path_isfile(DecodedPath, fs)

C16_Tier3EqualsTier2 ==
    ( /\ pc = "done"
      /\ Truthy(artifact.uri)
      /\ ~BaseMapped(artifact.uriBaseId, cfg) )
    => Fallback(artifact.uri, cfg)
           = _resolve_with_base(artifact.uri, artifact.uriBaseId, cfg)

-----------------------------------------------------------------------------
(* Properties of extract_result_files (specification SpecExtract) *)

\* what location i resolves to: None when it has no artifactLocation
Resolution(i) ==
    IF locs[i].kind = "art" THEN resolve_artifact_location(locs[i].art, cfg, fs) ELSE None

\* the locations that yield a result
Producing == {i \in 1..Len(locs) : Truthy(Resolution(i))}

\* the first location that resolves to path p
FirstProducing(p) ==
    CHOOSE i \in Producing :
        Resolution(i) = p /\ \A j \in Producing : Resolution(j) = p => i <= j

\* C5: the returned list holds the resolved paths of the locations that
\* yield one and nothing else, each distinct path exactly once, ordered by
\* the first location that produced it; locations that yield nothing are
\* left out.
C5_DedupFirstSeenOrder ==
    xpc = "done" =>
        /\ \A i \in Producing : \E k \in 1..Len(dedup) : dedup[k] = Resolution(i)
        /\ \A k \in 1..Len(dedup) : \E i \in Producing : dedup[k] = Resolution(i)
        /\ \A j, k \in 1..Len(dedup) : j < k => dedup[j] /= dedup[k]
        /\ \A j, k \in 1..Len(dedup) :
               j < k => FirstProducing(dedup[j]) < FirstProducing(dedup[k])

\* a malformed file:// URI that resolves to None is left out, and two
\* different URIs of one path give one entry
C5_Witness ==
    /\ xpc = "done"
    /\ Len(locs) = 3
    /\ locs[1] = LocOf([uri |-> U_bad, uriBaseId |-> ""])
    /\ locs[2] = LocOf([uri |-> U_dot, uriBaseId |-> ""])
    /\ locs[3] = LocOf([uri |-> U_rel, uriBaseId |-> ""])
    /\ Resolution(1) = None
    /\ Resolution(2) = Resolution(3)
    /\ dedup = <<Resolution(2)>>

\* two of the three locations of the result resolve to one path
TwoOfThreeAgree ==
    /\ Len(locs) = 3
    /\ \E i, j \in Producing : i < j /\ Resolution(i) = Resolution(j)

\* C6 as stated: with 3 locations of which 2 resolve to the same path, the
\* returned list has 1 entry.
C6_TwoOfThreeGiveOneEntry ==
    (xpc = "done" /\ TwoOfThreeAgree) => Len(dedup) = 1

\* C6, amended: with 3 locations of which 2 resolve to the same path, that
\* path is in the returned list exactly once, and the list has 1 entry when
\* the third location yields nothing or the same path, and 2 entries when it
\* resolves to another path.
C6_TwoOfThreeGiveOneEntryPerPath ==
    (xpc = "done" /\ TwoOfThreeAgree) =>
        LET shared == CHOOSE p \in {Resolution(i) : i \in Producing} :
                          \E i, j \in Producing :
                              i < j /\ Resolution(i) = p /\ Resolution(j) = p
            others == {i \in Producing : Resolution(i) /= shared}
        IN  /\ Cardinality({k \in 1..Len(dedup) : dedup[k] = shared}) = 1
            /\ Len(dedup) = IF others = {} THEN 1 ELSE 2

\* the third location resolves to another path: two entries
C6_Witness ==
    /\ xpc = "done"
    /\ Len(locs) = 3
    /\ Truthy(Resolution(1))
    /\ Resolution(1) = Resolution(2)
    /\ Truthy(Resolution(3))
    /\ Resolution(3) /= Resolution(1)
    /\ Len(dedup) = 2

-----------------------------------------------------------------------------
(* Properties of select_suspicious (specification SpecSelect) *)

\* the clamped context window of hit line h (0-based), as a range
WindowOf(h) == <<Max(0, h - context_window), Min(Len(lines) - 1, h + context_window)>>

\* C7: the merged ranges are in strictly ascending order, pairwise
\* non-overlapping and non-adjacent, and (before truncation) every hit line
\* with its clamped context window lies inside one of them; hits on lines 5
\* and 7 with window 2 in a file of at least 9 lines give the single region
\* [3,9].
C7_MergedRangesDisjointAndCovering ==
    spc \in {"emit", "done"} =>
        /\ \A i \in 1..Len(ranges) : ranges[i][1] <= ranges[i][2]
        /\ \A i \in 1..(Len(ranges) - 1) : ranges[i + 1][1] > ranges[i][2] + 1
        /\ \A k \in 1..Len(hit_lines) :
               \E i \in 1..Len(ranges) :
                   /\ ranges[i][1] <= WindowOf(hit_lines[k])[1]
                   /\ WindowOf(hit_lines[k])[2] <= ranges[i][2]
        /\ (hit_lines = <<4, 6>> /\ context_window = 2 /\ Len(lines) >= 9)
               => /\ ranges = << <<2, 8>> >>
                  /\ (spc = "done" /\ max_snippets >= 1)
                         => /\ out.snippet_count = 1
                            /\ out.snippets[1].start_line = 3
                            /\ out.snippets[1].end_line = 9

\* the nine-line file with the keyword on lines 5 and 7, window 2
C7_Witness ==
    /\ spc = "done"
    /\ file_content = NineFile
    /\ hit_lines = <<4, 6>>
    /\ context_window = 2
    /\ out.snippet_count = 1
    /\ out.snippets[1].start_line = 3
    /\ out.snippets[1].end_line = 9

\* C8: the call returns at most max_snippets regions, none when
\* max_snippets <= 0, and they are the first regions of the merged list;
\* snippet_count is their number.
C8_AtMostMaxSnippets ==
    spc = "done" =>
        /\ Len(out.snippets) <= Max(0, max_snippets)
        /\ Len(out.snippets) = Min(Max(0, max_snippets), Len(ranges))
        /\ \A i \in 1..Len(out.snippets) :
               /\ i <= Len(ranges)
               /\ out.snippets[i].start_line = ranges[i][1] + 1
               /\ out.snippets[i].end_line = ranges[i][2] + 1
        /\ out.snippet_count = Len(out.snippets)

\* the count of "\n" in a string
NewlineCount(t) == Cardinality({i \in 1..Len(t) : t[i] = "\n"})

\* C9: every region returned has 1 <= start_line <= end_line <= n, its
\* bounds are those of its merged range plus one, and its text is the lines
\* start_line..end_line of the file joined by "\n" (for a file whose lines
\* end in "\n" alone: a piece of the file that spans end_line - start_line
\* line ends); the three-line eval file with keywords ["eval"], window 1 and
\* max_snippets 3 gives one region, lines 1-3, whose text is the whole file.
C9_RegionBoundsAndText ==
    spc = "done" =>
        /\ \A i \in 1..Len(out.snippets) :
               LET sn == out.snippets[i] IN
               /\ 1 <= sn.start_line
               /\ sn.start_line <= sn.end_line
               /\ sn.end_line <= Len(splitlines(file_content))
               /\ i <= Len(ranges)
               /\ sn.start_line = ranges[i][1] + 1
               /\ sn.end_line = ranges[i][2] + 1
               /\ sn.text = Join([k \in 1..(sn.end_line - sn.start_line + 1) |->
                                     splitlines(file_content)[sn.start_line + k - 1]],
                                 <<"\n">>)
               /\ ~HasChar(file_content, "\r")
                      => /\ Contains(file_content, sn.text)
                         /\ NewlineCount(sn.text) = sn.end_line - sn.start_line
        /\ ( /\ file_content = EvalFile
             /\ suspicious_keywords = <<Kw_eval>>
             /\ arg_context_window = 1
             /\ max_snippets = 3 )
               => out = [snippet_count |-> 1,
                         snippets |-> <<[start_line |-> 1, end_line |-> 3,
                                         text |-> EvalFile]>>]

\* the end-to-end scenario
C9_Witness ==
    /\ spc = "done"
    /\ file_content = EvalFile
    /\ suspicious_keywords = <<Kw_eval>>
    /\ arg_context_window = 1
    /\ max_snippets = 3
    /\ hit_lines = <<1>>
    /\ out.snippet_count = 1
    /\ out.snippets[1].text = Ln_def \o <<"\n">> \o Ln_y \o <<"\n">> \o Ln_return

\* C10: with context_window <= 0 the call returns what it returns with
\* context_window = 10 and the other arguments unchanged.
C10_NonPositiveWindowIsTen ==
    (spc = "done" /\ arg_context_window <= 0) =>
        out = select_suspicious(file_content, suspicious_keywords, codeql_query,
                                10, max_snippets)

\* window 0 on the seventeen-line file: the five hits are ten or fewer lines
\* apart and merge into one region over the whole file
C10_Witness ==
    /\ spc = "done"
    /\ arg_context_window = 0
    /\ file_content = SpreadFile
    /\ hit_lines = <<0, 4, 8, 12, 16>>
    /\ out.snippet_count = 1
    /\ out.snippets[1].start_line = 1
    /\ out.snippets[1].end_line = 17

\* line i (1-based) of the file holds a configured keyword, case-insensitively
HoldsKeyword(i) ==
    \E j \in 1..Len(suspicious_keywords) :
        Contains(Lower(splitlines(file_content)[i]), Lower(suspicious_keywords[j]))

\* line i (1-based) holds a built-in fallback keyword that the text q holds
\* too, both case-insensitively
HoldsFallback(i, q) ==
    \E j \in 1..Len(fallbacks) :
        /\ Contains(Lower(splitlines(file_content)[i]), fallbacks[j])
        /\ q /= None
        /\ Contains(Lower(q), fallbacks[j])

LineNumbers == 1..Len(splitlines(file_content))

\* C11: an empty file gives zero regions, and so does every file none of
\* whose lines holds a configured keyword or a fallback keyword of the query:
\* snippet_count = 0 and snippets is empty.
C11_NoHitNoRegion ==
    ( /\ spc = "done"
      /\ \/ file_content = <<>>
         \/ \A i \in LineNumbers : ~HoldsKeyword(i) /\ ~HoldsFallback(i, codeql_query) )
    => out = [snippet_count |-> 0, snippets |-> <<>>]

\* a file that holds fallback keywords the query does not name, and no
\* configured keyword
C11_Witness ==
    /\ spc = "done"
    /\ file_content = PathFile
    /\ suspicious_keywords = <<Kw_eval>>
    /\ codeql_query = Q_regex
    /\ max_snippets = 3
    /\ hit_lines = <<>>
    /\ out.snippet_count = 0

\* the 0-based hit lines as a set
HitSet == {hit_lines[k] : k \in 1..Len(hit_lines)}

\* C17: a line is a hit iff it holds a configured keyword case-insensitively;
\* the fallback keywords count only when no line holds a configured keyword,
\* and then a line is a hit iff it holds a fallback keyword that is in the
\* query text too; when some line holds a configured keyword the output is
\* the same for every query text.
C17_PrimaryThenFallbackHits ==
    spc \in {"merge", "emit", "done"} =>
        /\ \A j, k \in 1..Len(hit_lines) : j < k => hit_lines[j] < hit_lines[k]
        /\ (\E i \in LineNumbers : HoldsKeyword(i))
               => HitSet = {i - 1 : i \in {l \in LineNumbers : HoldsKeyword(l)}}
        /\ (\A i \in LineNumbers : ~HoldsKeyword(i))
               => HitSet = {i - 1 : i \in {l \in LineNumbers : HoldsFallback(l, codeql_query)}}
        /\ (spc = "done" /\ \E i \in LineNumbers : HoldsKeyword(i))
               => \A q \in Queries :
                      out = select_suspicious(file_content, suspicious_keywords, q,
                                              arg_context_window, max_snippets)

\* no configured keyword in the file: the fallback keyword "path" of the
\* query marks the upper-case line
C17_Witness ==
    /\ spc = "done"
    /\ file_content = UpperFile
    /\ suspicious_keywords = <<Kw_eval>>
    /\ codeql_query = Q_path
    /\ hit_lines = <<1>>
    /\ out.snippet_count = 1

-----------------------------------------------------------------------------
(* Properties of safe_read_text (specification SpecRead) *)

\* t is the first characters of u
IsPrefix(t, u) == Len(t) <= Len(u) /\ SubSeq(u, 1, Len(t)) = t

\* open() succeeds on the path with the encoding
Opens == path_entry.kind = "file" /\ encoding \in {"utf-8", "ascii"}

\* some byte of the file does not decode
HasBadByte == \E i \in 1..Len(path_entry.bytes) : path_entry.bytes[i] = BadByte

-----------------------------------------------------------------------------
(* Properties of iter_results (specification SpecIter) *)

\* the results of the runs rs that hold a list of results, run after run
RECURSIVE AllResults(_)
AllResults(rs) ==
    IF rs = <<>> THEN <<>>
    ELSE (IF rs[1].results.kind = "list" THEN rs[1].results.items ELSE <<>>)
             \o AllResults(Tail(rs))

\* C14: a report whose runs are absent, null or empty yields nothing, a run
\* whose results are absent, null or empty adds nothing, and every result of
\* every other run is yielded once, in run order and then result order.
C14_EveryResultOnceInOrder ==
    ipc = "done" =>
        /\ (sarif.runs.kind /= "list" \/ sarif.runs.items = <<>>) => yielded = <<>>
        /\ sarif.runs.kind = "list" => yielded = AllResults(sarif.runs.items)

\* two runs with results: those of the first run come first
C14_Witness ==
    /\ ipc = "done"
    /\ sarif.runs.kind = "list"
    /\ Len(sarif.runs.items) = 2
    /\ sarif.runs.items[1].results = [kind |-> "list", items |-> <<"r2">>]
    /\ sarif.runs.items[2].results = [kind |-> "list", items |-> <<"r1", "r2">>]
    /\ yielded = <<"r2", "r1", "r2">>

-----------------------------------------------------------------------------
(* Properties of run_from_sarif_only (specification SpecRun) *)

\* the entries of finding i, in output order
EntriesOf(i) == SelectSeq(outputs, LAMBDA e : e.index = i)

\* the indices of the output never go down
AscendingIndex ==
    \A j, k \in 1..Len(outputs) : j < k => outputs[j].index <= outputs[k].index

\* the read of path fp fails: open() raises
ReadFails(fp) == disk[fp].kind /= "file"

\* the read of path fp gives no text
ReadsNothing(fp) == safe_read_text(disk[fp], "utf-8", max_file_chars) = <<>>

-----------------------------------------------------------------------------
(* Properties of retrieve_vuln_kb (specification SpecKb) *)

\* the lower-cased query
LowQuery == IF Truthy(rule_id_or_query) THEN Lower(rule_id_or_query) ELSE <<>>

\* the identifier rule: the record has an identifier, which lower-cased is a
\* substring of the lower-cased query
IdRule(item) == item.id /= None /\ Contains(LowQuery, Lower(item.id))

\* the token rule: some token of the query is a substring of the record's
\* lower-cased text
TokenRule(item) == \E tok \in findall_tokens(LowQuery, 1) : Contains(kb_text(item), tok)

\* C18: the hits are the records that the identifier rule or the token rule
\* matches, each once, in knowledge-base order; a record with no identifier
\* is a hit only by the token rule.
C18_HitsByIdOrToken ==
    kpc = "done" =>
        kb_hits = SelectSeq([k \in 1..Len(vuln_kb) |-> k],
                            LAMBDA k : IdRule(vuln_kb[k]) \/ TokenRule(vuln_kb[k]))

====
